---- MODULE Spec2Model ----
(***************************************************************************)
(* Model of the "unposted" voice journal front end:                        *)
(*   - the zustand journal store (store/journals.ts) over the Dexie table  *)
(*     (store/db.ts): addEntry / updateEntry / removeEntry / clearAll /    *)
(*     hydrate, each split at its store await;                             *)
(*   - the Recorder component (components/Recorder.tsx) and the page       *)
(*     callback handleRecordingReady (pages/Journals.tsx);                 *)
(*   - getStreakCount, as a pure operator.                                 *)
(*                                                                         *)
(* Time is counted in units of 8 hours: a day is DayUnits = 3 units, so    *)
(* that two instants of one calendar day, and two instants of adjacent     *)
(* calendar days more than 24 hours apart, both exist.                     *)
(***************************************************************************)
EXTENDS Integers, Sequences, FiniteSets, TLC

VARIABLES
    entries,      \* JournalState.entries: the in-memory list
    hydrated,     \* JournalState.hydrated
    db,           \* journalDb.journals: the set of stored records, keyed by id
    liveUrls,     \* object URLs created and not yet revoked
    calls,        \* the async store calls in flight, one per caller slot
    ncalls,       \* number of calls begun so far
    \* Recorder.tsx: component state and refs
    status, elapsed, recError, previewUrl, previewDuration,
    mediaRecorderRef, streamRef, chunksRef, timerRef, elapsedRef,
    \* Recorder.tsx: the browser objects the component drives
    tracks,        \* MediaStreams whose tracks are live: capture devices held
    recState,      \* each MediaRecorder's state and pending events
    timers,        \* intervals set and not cleared
    pendingStarts, \* startRecording calls awaiting getUserMedia
    nstreams,      \* MediaStreams acquired so far
    nsaves,        \* clicks on Save so far
    stopRequested, \* whether Stop has been clicked since the last Save
    \* the streak badge
    streak,        \* the last value getStreakCount returned
    streakShown,   \* whether getStreakCount has been evaluated
    \* two operations set against their serial executions
    pair           \* the state they start from and the two operations

repoVars == <<entries, hydrated, db, liveUrls, calls, ncalls>>

recVars == <<status, elapsed, recError, previewUrl, previewDuration,
             mediaRecorderRef, streamRef, chunksRef, timerRef, elapsedRef,
             tracks, recState, timers, pendingStarts, nstreams, nsaves,
             stopRequested>>

streakVars == <<streak, streakShown, pair>>

vars == <<repoVars, recVars, streakVars>>

----------------------------------------------------------------------------
(* Bounds and input domains *)

MaxCalls == 3                 \* calls begun in one behaviour
MaxStarts == 2                \* getUserMedia requests made in one behaviour
MaxSaves == 2                 \* clicks on Save in one behaviour
MaxElapsed == 1               \* seconds the elapsed-time counter is followed for
MaxStreakLen == 3             \* entries in a list given to getStreakCount
MaxStreakDays == 3            \* calendar days the entries of such a list span
Procs    == {1, 2}            \* caller slots: calls that may be in flight together
Ids      == {1, 2}            \* entry ids the callers use
Times    == {1, 2}            \* createdAt instants the callers use
SaveSlots == {1}              \* caller slots the Journals page saves recordings in
Transcripts == {1}            \* transcripts the transcription request answers with
NoUrl    == 0                 \* audioUrl: undefined
NoBlob   == [undefined |-> TRUE]   \* audioBlob: undefined
Blob(parts) == [parts |-> parts]   \* new Blob(parts)

----------------------------------------------------------------------------
(* JournalEntry and the inputs *)

NewEntry(i, t, b) ==
    [id |-> i, createdAt |-> t, transcript |-> 0, duration |-> 0,
     audioBlob |-> b, audioUrl |-> NoUrl, encrypted |-> FALSE, title |-> 0]

AddInputs == {NewEntry(i, t, b) : i \in Ids, t \in Times, b \in {NoBlob, Blob(<<1>>)}}

\* What an earlier session may have left in the table: records as saveJournal
\* writes them, one per id
StoredBefore == {NewEntry(1, 1, Blob(<<1>>)), NewEntry(2, 2, NoBlob)}

Patches ==
    {[k |-> "transcript", v |-> 1], [k |-> "audioBlob", v |-> Blob(<<2>>)]}
    \cup {[k |-> "createdAt", v |-> t] : t \in Times}
    \cup {[k |-> "id", v |-> i] : i \in Ids}

\* { ...existing, ...patch }
Merge(existing, patch) ==
    CASE patch.k = "transcript" -> [existing EXCEPT !.transcript = patch.v]
      [] patch.k = "audioBlob"  -> [existing EXCEPT !.audioBlob = patch.v]
      [] patch.k = "createdAt"  -> [existing EXCEPT !.createdAt = patch.v]
      [] patch.k = "id"         -> [existing EXCEPT !.id = patch.v]

Idle == [op |-> "none", pc |-> "idle"]

Finished(p, how) == [op |-> calls[p].op, pc |-> how]

CanBegin(p) == calls[p].pc \in {"idle", "done", "failed"} /\ ncalls < MaxCalls

----------------------------------------------------------------------------
(* db.ts *)

\* a put that adds the record beside any record stored under the same id
PutAppending(table, entry) == table \cup {[entry EXCEPT !.audioUrl = NoUrl]}

\* a put that stores the entry as it is held in memory, audioUrl included
PutKeepingUrl(table, entry) == {r \in table : r.id # entry.id} \cup {entry}

\* a put that stores the record without its audio payload
PutDroppingPayload(table, entry) ==
    {r \in table : r.id # entry.id}
    \cup {[entry EXCEPT !.audioUrl = NoUrl, !.audioBlob = NoBlob]}

\* journals.put: upsert by primary key id; audioUrl is stored as undefined
Put(table, entry) ==
    {r \in table : r.id # entry.id} \cup {[entry EXCEPT !.audioUrl = NoUrl]}

\* journals.delete(id)
Delete(table, id) == {r \in table : r.id # id}

\* orderBy("createdAt").reverse(): createdAt descending, ties by key descending
Before(r, x) ==
    r.createdAt > x.createdAt \/ (r.createdAt = x.createdAt /\ r.id > x.id)

RECURSIVE OrderByCreatedAtReverse(_)
OrderByCreatedAtReverse(S) ==
    IF S = {} THEN <<>>
    ELSE LET m == CHOOSE r \in S : \A x \in S \ {r} : Before(r, x)
         IN  <<m>> \o OrderByCreatedAtReverse(S \ {m})

NeedsUrl(e) == e.audioUrl = NoUrl /\ e.audioBlob # NoBlob

\* records.map(entry => ({...entry, audioUrl: entry.audioUrl ?? createObjectURL}))
RECURSIVE MapAudioUrls(_, _)
MapAudioUrls(recs, fresh) ==
    IF recs = <<>> THEN <<>>
    ELSE LET r == Head(recs)
         IN  IF NeedsUrl(r)
             THEN <<[r EXCEPT !.audioUrl = Head(fresh)]>>
                      \o MapAudioUrls(Tail(recs), Tail(fresh))
             ELSE <<r>> \o MapAudioUrls(Tail(recs), fresh)

\* revokeAudioUrl: every URL of the model is a "blob:" URL
RevokeAudioUrl(live, e) == live \ {e.audioUrl}

Range(s) == {s[i] : i \in 1..Len(s)}

\* URL.createObjectURL returns a URL never seen before. A URL is named by a
\* positive number; a number that is neither live nor held anywhere names a URL
\* nothing can tell from a new one, and is given out again.
UrlsOfCall(c) ==
    IF c.op \in {"add", "update"} /\ c.pc \in {"await", "resume"} THEN {c.entry.audioUrl}
    ELSE IF c.op = "hydrate" /\ c.pc = "resume" THEN {e.audioUrl : e \in Range(c.snap)}
    ELSE {}

UrlsInUse ==
    liveUrls \cup {previewUrl} \cup {e.audioUrl : e \in Range(entries)}
    \cup UNION {UrlsOfCall(calls[p]) : p \in Procs}

RECURSIVE FreshUrls(_, _)
FreshUrls(used, k) ==
    IF k = 0 THEN <<>>
    ELSE LET u == CHOOSE x \in 1..(Cardinality(used) + 1) :
                      x \notin used /\ \A y \in 1..(x - 1) : y \in used
         IN  <<u>> \o FreshUrls(used \cup {u}, k - 1)

CreateObjectURL == FreshUrls(UrlsInUse, 1)[1]

\* Array.prototype.find / filter / map over the list
Find(es, id) ==
    LET I == {i \in 1..Len(es) : es[i].id = id}
    IN  es[CHOOSE i \in I : \A j \in I : i <= j]

Has(es, id) == \E i \in 1..Len(es) : es[i].id = id

RECURSIVE Filter(_, _)
Filter(es, id) ==
    IF es = <<>> THEN <<>>
    ELSE IF Head(es).id = id THEN Filter(Tail(es), id)
         ELSE <<Head(es)>> \o Filter(Tail(es), id)

MapReplace(es, id, updated) ==
    [i \in 1..Len(es) |-> IF es[i].id = id THEN updated ELSE es[i]]

----------------------------------------------------------------------------
(* journals.ts: addEntry *)

AddBegin(p) ==
    /\ CanBegin(p)
    /\ \E entry \in AddInputs :
         LET derive    == NeedsUrl(entry)
             nextEntry == [entry EXCEPT !.audioUrl =
                              IF derive THEN CreateObjectURL ELSE entry.audioUrl]
         IN  /\ liveUrls' = IF derive THEN liveUrls \cup {CreateObjectURL} ELSE liveUrls
             /\ calls' = [calls EXCEPT ![p] =
                            [op |-> "add", pc |-> "await", entry |-> nextEntry]]
    /\ ncalls' = ncalls + 1
    /\ UNCHANGED <<entries, hydrated, db>>
    /\ UNCHANGED <<recVars, streakVars>>

\* addEntry with a put that resolves without writing the record
AddStoreOkNoPut(p) ==
    /\ calls[p].op = "add" /\ calls[p].pc = "await"
    /\ calls' = [calls EXCEPT ![p].pc = "resume"]
    /\ UNCHANGED <<entries, hydrated, db, liveUrls, ncalls>>
    /\ UNCHANGED <<recVars, streakVars>>

\* saveJournal's put succeeds
AddStoreOk(p) ==
    /\ calls[p].op = "add" /\ calls[p].pc = "await"
    /\ db' = Put(db, calls[p].entry)
    /\ calls' = [calls EXCEPT ![p].pc = "resume"]
    /\ UNCHANGED <<entries, hydrated, liveUrls, ncalls>>
    /\ UNCHANGED <<recVars, streakVars>>

\* addEntry that inserts into the list before the write is confirmed
AddStoreFailReflects(p) ==
    /\ calls[p].op = "add" /\ calls[p].pc = "await"
    /\ entries' = <<calls[p].entry>> \o entries
    /\ calls' = [calls EXCEPT ![p] = Finished(p, "failed")]
    /\ UNCHANGED <<hydrated, db, liveUrls, ncalls>>
    /\ UNCHANGED <<recVars, streakVars>>

\* saveJournal rejects: addEntry rejects before its set()
AddStoreFail(p) ==
    /\ calls[p].op = "add" /\ calls[p].pc = "await"
    /\ calls' = [calls EXCEPT ![p] = Finished(p, "failed")]
    /\ UNCHANGED <<entries, hydrated, db, liveUrls, ncalls>>
    /\ UNCHANGED <<recVars, streakVars>>

\* set(state => ({entries: [nextEntry, ...state.entries]}))
AddReflect(p) ==
    /\ calls[p].op = "add" /\ calls[p].pc = "resume"
    /\ entries' = <<calls[p].entry>> \o entries
    /\ calls' = [calls EXCEPT ![p] = Finished(p, "done")]
    /\ UNCHANGED <<hydrated, db, liveUrls, ncalls>>
    /\ UNCHANGED <<recVars, streakVars>>

----------------------------------------------------------------------------
(* journals.ts: updateEntry *)

UpdateBegin(p) ==
    /\ CanBegin(p)
    /\ \E id \in Ids, patch \in Patches :
         IF ~Has(entries, id)
         THEN /\ calls' = [calls EXCEPT ![p] = [op |-> "update", pc |-> "done"]]
              /\ UNCHANGED liveUrls
         ELSE LET existing == Find(entries, id)
                  merged   == Merge(existing, patch)
                  swap     == patch.k = "audioBlob"
                  updated  == IF swap THEN [merged EXCEPT !.audioUrl = CreateObjectURL]
                              ELSE merged
              IN  /\ liveUrls' = IF swap
                                 THEN RevokeAudioUrl(liveUrls \cup {CreateObjectURL}, existing)
                                 ELSE liveUrls
                  /\ calls' = [calls EXCEPT ![p] =
                                 [op |-> "update", pc |-> "await", id |-> id,
                                  entry |-> updated]]
    /\ ncalls' = ncalls + 1
    /\ UNCHANGED <<entries, hydrated, db>>
    /\ UNCHANGED <<recVars, streakVars>>

UpdateStoreOk(p) ==
    /\ calls[p].op = "update" /\ calls[p].pc = "await"
    /\ db' = Put(db, calls[p].entry)
    /\ calls' = [calls EXCEPT ![p].pc = "resume"]
    /\ UNCHANGED <<entries, hydrated, liveUrls, ncalls>>
    /\ UNCHANGED <<recVars, streakVars>>

UpdateStoreFail(p) ==
    /\ calls[p].op = "update" /\ calls[p].pc = "await"
    /\ calls' = [calls EXCEPT ![p] = Finished(p, "failed")]
    /\ UNCHANGED <<entries, hydrated, db, liveUrls, ncalls>>
    /\ UNCHANGED <<recVars, streakVars>>

\* an update whose set() replaces every entry of the list
UpdateReflectReplacesAll(p) ==
    /\ calls[p].op = "update" /\ calls[p].pc = "resume"
    /\ entries' = [i \in 1..Len(entries) |-> calls[p].entry]
    /\ calls' = [calls EXCEPT ![p] = Finished(p, "done")]
    /\ UNCHANGED <<hydrated, db, liveUrls, ncalls>>
    /\ UNCHANGED <<recVars, streakVars>>

UpdateReflect(p) ==
    /\ calls[p].op = "update" /\ calls[p].pc = "resume"
    /\ entries' = MapReplace(entries, calls[p].id, calls[p].entry)
    /\ calls' = [calls EXCEPT ![p] = Finished(p, "done")]
    /\ UNCHANGED <<hydrated, db, liveUrls, ncalls>>
    /\ UNCHANGED <<recVars, streakVars>>

----------------------------------------------------------------------------
(* journals.ts: removeEntry *)

RemoveBegin(p) ==
    /\ CanBegin(p)
    /\ \E id \in Ids :
         calls' = [calls EXCEPT ![p] = [op |-> "remove", pc |-> "await", id |-> id]]
    /\ ncalls' = ncalls + 1
    /\ UNCHANGED <<entries, hydrated, db, liveUrls>>
    /\ UNCHANGED <<recVars, streakVars>>

RemoveStoreOk(p) ==
    /\ calls[p].op = "remove" /\ calls[p].pc = "await"
    /\ db' = Delete(db, calls[p].id)
    /\ calls' = [calls EXCEPT ![p].pc = "resume"]
    /\ UNCHANGED <<entries, hydrated, liveUrls, ncalls>>
    /\ UNCHANGED <<recVars, streakVars>>

RemoveStoreFail(p) ==
    /\ calls[p].op = "remove" /\ calls[p].pc = "await"
    /\ calls' = [calls EXCEPT ![p] = Finished(p, "failed")]
    /\ UNCHANGED <<entries, hydrated, db, liveUrls, ncalls>>
    /\ UNCHANGED <<recVars, streakVars>>

\* a remove whose set() revokes the object URL of every entry of the list
RemoveReflectRevokesAll(p) ==
    /\ calls[p].op = "remove" /\ calls[p].pc = "resume"
    /\ liveUrls' = liveUrls \ {e.audioUrl : e \in Range(entries)}
    /\ entries' = Filter(entries, calls[p].id)
    /\ calls' = [calls EXCEPT ![p] = Finished(p, "done")]
    /\ UNCHANGED <<hydrated, db, ncalls>>
    /\ UNCHANGED <<recVars, streakVars>>

RemoveReflect(p) ==
    /\ calls[p].op = "remove" /\ calls[p].pc = "resume"
    /\ liveUrls' = IF Has(entries, calls[p].id)
                   THEN RevokeAudioUrl(liveUrls, Find(entries, calls[p].id))
                   ELSE liveUrls
    /\ entries' = Filter(entries, calls[p].id)
    /\ calls' = [calls EXCEPT ![p] = Finished(p, "done")]
    /\ UNCHANGED <<hydrated, db, ncalls>>
    /\ UNCHANGED <<recVars, streakVars>>

----------------------------------------------------------------------------
(* journals.ts: clearAll *)

ClearBegin(p) ==
    /\ CanBegin(p)
    /\ calls' = [calls EXCEPT ![p] = [op |-> "clear", pc |-> "await"]]
    /\ ncalls' = ncalls + 1
    /\ UNCHANGED <<entries, hydrated, db, liveUrls>>
    /\ UNCHANGED <<recVars, streakVars>>

ClearStoreOk(p) ==
    /\ calls[p].op = "clear" /\ calls[p].pc = "await"
    /\ db' = {}
    /\ calls' = [calls EXCEPT ![p].pc = "resume"]
    /\ UNCHANGED <<entries, hydrated, liveUrls, ncalls>>
    /\ UNCHANGED <<recVars, streakVars>>

ClearStoreFail(p) ==
    /\ calls[p].op = "clear" /\ calls[p].pc = "await"
    /\ calls' = [calls EXCEPT ![p] = Finished(p, "failed")]
    /\ UNCHANGED <<entries, hydrated, db, liveUrls, ncalls>>
    /\ UNCHANGED <<recVars, streakVars>>

ClearReflect(p) ==
    /\ calls[p].op = "clear" /\ calls[p].pc = "resume"
    /\ liveUrls' = liveUrls \ {e.audioUrl : e \in Range(entries)}
    /\ entries' = <<>>
    /\ calls' = [calls EXCEPT ![p] = Finished(p, "done")]
    /\ UNCHANGED <<hydrated, db, ncalls>>
    /\ UNCHANGED <<recVars, streakVars>>

----------------------------------------------------------------------------
(* journals.ts: hydrate *)

HydrateBegin(p) ==
    /\ CanBegin(p)
    /\ calls' = [calls EXCEPT ![p] =
                   IF hydrated THEN [op |-> "hydrate", pc |-> "done"]
                   ELSE [op |-> "hydrate", pc |-> "await"]]
    /\ ncalls' = ncalls + 1
    /\ UNCHANGED <<entries, hydrated, db, liveUrls>>
    /\ UNCHANGED <<recVars, streakVars>>

\* getAllJournals resolves with the records read, each with its object URL
HydrateStoreOk(p) ==
    /\ calls[p].op = "hydrate" /\ calls[p].pc = "await"
    /\ LET recs  == OrderByCreatedAtReverse(db)
           fresh == FreshUrls(UrlsInUse, Cardinality({r \in db : NeedsUrl(r)}))
       IN  /\ calls' = [calls EXCEPT ![p] =
                          [op |-> "hydrate", pc |-> "resume",
                           snap |-> MapAudioUrls(recs, fresh)]]
           /\ liveUrls' = liveUrls \cup Range(fresh)
    /\ UNCHANGED <<entries, hydrated, db, ncalls>>
    /\ UNCHANGED <<recVars, streakVars>>

HydrateStoreFail(p) ==
    /\ calls[p].op = "hydrate" /\ calls[p].pc = "await"
    /\ calls' = [calls EXCEPT ![p] = Finished(p, "failed")]
    /\ UNCHANGED <<entries, hydrated, db, liveUrls, ncalls>>
    /\ UNCHANGED <<recVars, streakVars>>

\* set({entries, hydrated: true})
HydrateReflect(p) ==
    /\ calls[p].op = "hydrate" /\ calls[p].pc = "resume"
    /\ entries' = calls[p].snap
    /\ hydrated' = TRUE
    /\ calls' = [calls EXCEPT ![p] = Finished(p, "done")]
    /\ UNCHANGED <<db, liveUrls, ncalls>>
    /\ UNCHANGED <<recVars, streakVars>>

----------------------------------------------------------------------------
(* Recorder.tsx *)

\* the id window.setInterval returns: one no live interval or ref still uses
FreshTimer == CHOOSE t \in 1..(Cardinality(timers) + 2) : t \notin timers \cup {timerRef}

\* the component is mounted; after its unmount React drops every state update,
\* so the state setters called by a late callback change nothing
Mounted == status # "unmounted"

\* stopTracks()
StopTracks ==
    /\ timers' = timers \ {timerRef}
    /\ timerRef' = 0
    /\ tracks' = tracks \ {streamRef}
    /\ streamRef' = 0
    /\ mediaRecorderRef' = 0

\* resetState()
ResetState ==
    /\ StopTracks
    /\ elapsed' = 0
    /\ liveUrls' = liveUrls \ {previewUrl}
    /\ previewUrl' = NoUrl
    /\ previewDuration' = 0
    /\ elapsedRef' = 0
    /\ chunksRef' = <<>>
    /\ status' = "idle"

\* the Start button of the idle render: startRecording up to its await
ClickStart ==
    /\ status = "idle"
    /\ nstreams + pendingStarts < MaxStarts
    /\ pendingStarts' = pendingStarts + 1
    /\ UNCHANGED <<status, elapsed, recError, previewUrl, previewDuration,
                   mediaRecorderRef, streamRef, chunksRef, timerRef, elapsedRef,
                   tracks, recState, timers, nstreams, nsaves, stopRequested>>
    /\ UNCHANGED <<repoVars, streakVars>>

\* getUserMedia resolves and the rest of the try block runs
StartAcquired ==
    /\ pendingStarts > 0
    /\ LET stream == nstreams + 1
           timer  == FreshTimer
       IN  /\ nstreams' = stream
           /\ tracks' = tracks \cup {stream}
           /\ streamRef' = stream
           /\ mediaRecorderRef' = stream
           /\ recState' = [recState EXCEPT ![stream] = "recording"]
           /\ timers' = timers \cup {timer}
           /\ timerRef' = timer
    /\ pendingStarts' = pendingStarts - 1
    /\ chunksRef' = <<>>
    /\ elapsedRef' = 0
    /\ elapsed' = IF Mounted THEN 0 ELSE elapsed
    /\ status' = IF Mounted THEN "recording" ELSE status
    /\ UNCHANGED <<recError, previewUrl, previewDuration, nsaves, stopRequested>>
    /\ UNCHANGED <<repoVars, streakVars>>

\* getUserMedia rejects: the catch block
StartDenied ==
    /\ pendingStarts > 0
    /\ pendingStarts' = pendingStarts - 1
    /\ recError' = (IF Mounted THEN TRUE ELSE recError)
    /\ status' = IF Mounted THEN "error" ELSE status
    /\ UNCHANGED <<elapsed, previewUrl, previewDuration, mediaRecorderRef, streamRef,
                   chunksRef, timerRef, elapsedRef, tracks, recState, timers,
                   nstreams, nsaves, stopRequested>>
    /\ UNCHANGED <<repoVars, streakVars>>

\* getUserMedia resolves and new MediaRecorder(stream) throws: the catch block
StartRecorderUnsupported ==
    /\ pendingStarts > 0
    /\ nstreams' = nstreams + 1
    /\ tracks' = tracks \cup {nstreams + 1}
    /\ streamRef' = nstreams + 1
    /\ pendingStarts' = pendingStarts - 1
    /\ recError' = (IF Mounted THEN TRUE ELSE recError)
    /\ status' = IF Mounted THEN "error" ELSE status
    /\ UNCHANGED <<elapsed, previewUrl, previewDuration, mediaRecorderRef,
                   chunksRef, timerRef, elapsedRef, recState, timers, nsaves, stopRequested>>
    /\ UNCHANGED <<repoVars, streakVars>>

\* getUserMedia resolves and recorder.start() throws: the catch block
StartRecorderStartThrows ==
    /\ pendingStarts > 0
    /\ nstreams' = nstreams + 1
    /\ tracks' = tracks \cup {nstreams + 1}
    /\ streamRef' = nstreams + 1
    /\ mediaRecorderRef' = nstreams + 1
    /\ recState' = [recState EXCEPT ![nstreams + 1] = "inactive"]
    /\ chunksRef' = <<>>
    /\ elapsedRef' = 0
    /\ pendingStarts' = pendingStarts - 1
    /\ recError' = (IF Mounted THEN TRUE ELSE recError)
    /\ status' = IF Mounted THEN "error" ELSE status
    /\ UNCHANGED <<elapsed, previewUrl, previewDuration, timerRef, timers, nsaves, stopRequested>>
    /\ UNCHANGED <<repoVars, streakVars>>

\* an interval set by startTimer fires
TimerTick ==
    /\ \E t \in timers : TRUE
    /\ Mounted
    /\ elapsed < MaxElapsed
    /\ elapsed' = elapsed + 1
    /\ elapsedRef' = elapsed + 1
    /\ UNCHANGED <<status, recError, previewUrl, previewDuration, mediaRecorderRef,
                   streamRef, chunksRef, timerRef, tracks, recState, timers,
                   pendingStarts, nstreams, nsaves, stopRequested>>
    /\ UNCHANGED <<repoVars, streakVars>>

\* handlePause: pauses a recording recorder, resumes a paused one
HandlePause ==
    /\ IF mediaRecorderRef # 0 /\ recState[mediaRecorderRef] = "recording"
       THEN /\ recState' = [recState EXCEPT ![mediaRecorderRef] = "paused"]
            /\ timers' = timers \ {timerRef}
            /\ status' = "paused"
            /\ UNCHANGED timerRef
       ELSE IF mediaRecorderRef # 0 /\ recState[mediaRecorderRef] = "paused"
       THEN /\ recState' = [recState EXCEPT ![mediaRecorderRef] = "recording"]
            /\ timers' = timers \cup {FreshTimer}
            /\ timerRef' = FreshTimer
            /\ status' = "recording"
       ELSE UNCHANGED <<recState, timers, timerRef, status>>
    /\ UNCHANGED <<elapsed, recError, previewUrl, previewDuration, mediaRecorderRef,
                   streamRef, chunksRef, elapsedRef, tracks,
                   pendingStarts, nstreams, nsaves, stopRequested>>
    /\ UNCHANGED <<repoVars, streakVars>>

\* the Pause button of the recording render
ClickPause == status = "recording" /\ HandlePause

\* the Resume button of the paused render
ClickResume == status = "paused" /\ HandlePause

\* the Stop button of the recording render: handleStop; recorder.stop() on an
\* inactive recorder throws and changes nothing
ClickStop ==
    /\ status = "recording"
    /\ mediaRecorderRef # 0
    /\ recState[mediaRecorderRef] \in {"recording", "paused"}
    /\ recState' = [recState EXCEPT ![mediaRecorderRef] = "flushing"]
    /\ stopRequested' = TRUE
    /\ UNCHANGED <<status, elapsed, recError, previewUrl, previewDuration,
                   mediaRecorderRef, streamRef, chunksRef, timerRef, elapsedRef,
                   tracks, timers, pendingStarts, nstreams, nsaves>>
    /\ UNCHANGED <<repoVars, streakVars>>

\* recorder.ondataavailable of a stopped recorder, with or without data
RecorderData(r) ==
    /\ recState[r] = "flushing"
    /\ recState' = [recState EXCEPT ![r] = "stopping"]
    /\ \E size \in {0, 1} :
         chunksRef' = IF size # 0 THEN Append(chunksRef, r) ELSE chunksRef
    /\ UNCHANGED <<status, elapsed, recError, previewUrl, previewDuration,
                   mediaRecorderRef, streamRef, timerRef, elapsedRef,
                   tracks, timers, pendingStarts, nstreams, nsaves, stopRequested>>
    /\ UNCHANGED <<repoVars, streakVars>>

\* recorder.onstop
RecorderOnStop(r) ==
    /\ recState[r] = "stopping"
    /\ recState' = [recState EXCEPT ![r] = "inactive"]
    /\ StopTracks
    /\ liveUrls' = liveUrls \cup {CreateObjectURL}
    /\ previewUrl' = IF Mounted THEN CreateObjectURL ELSE previewUrl
    /\ previewDuration' = IF Mounted THEN elapsedRef ELSE previewDuration
    /\ status' = IF Mounted THEN "preview" ELSE status
    /\ UNCHANGED <<elapsed, recError, chunksRef, elapsedRef,
                   pendingStarts, nstreams, nsaves, stopRequested>>
    /\ UNCHANGED <<entries, hydrated, db, calls, ncalls, streakVars>>

\* the Discard button of the preview render: handleDiscard
ClickDiscard ==
    /\ status = "preview" /\ previewUrl # NoUrl
    /\ ResetState
    /\ UNCHANGED <<recError, recState, pendingStarts, nstreams, nsaves, stopRequested>>
    /\ UNCHANGED <<entries, hydrated, db, calls, ncalls, streakVars>>

\* the cleanup of the unmount effect: resetState() on a component that is being
\* removed.  The refs are cleared as in resetState; the state is gone with the
\* component.  The updater passed to setPreviewUrl, which holds the
\* revokeObjectURL call, runs only if React evaluates it eagerly: an update
\* queued on a removed component is dropped unevaluated.
Unmount ==
    /\ Mounted
    /\ StopTracks
    /\ elapsedRef' = 0
    /\ chunksRef' = <<>>
    /\ status' = "unmounted"
    /\ \E updaterRuns \in BOOLEAN :
         /\ liveUrls' = IF updaterRuns THEN liveUrls \ {previewUrl} ELSE liveUrls
         /\ previewUrl' = IF updaterRuns THEN NoUrl ELSE previewUrl
    /\ UNCHANGED <<elapsed, previewDuration, recError, recState, pendingStarts,
                   nstreams, nsaves, stopRequested>>
    /\ UNCHANGED <<entries, hydrated, db, calls, ncalls, streakVars>>

\* the Save button of the preview render: handleSave, and handleRecordingReady
\* up to its await of the transcription request
ClickSave(p) ==
    /\ status = "preview" /\ previewUrl # NoUrl
    /\ calls[p].pc \in {"idle", "done", "failed"}
    /\ nsaves < MaxSaves
    /\ nsaves' = nsaves + 1
    /\ stopRequested' = FALSE
    /\ calls' = [calls EXCEPT ![p] =
                   [op |-> "record", pc |-> "transcribing",
                    blob |-> Blob(chunksRef), duration |-> previewDuration]]
    /\ ResetState
    /\ UNCHANGED <<recError, recState, pendingStarts, nstreams>>
    /\ UNCHANGED <<entries, hydrated, db, ncalls, streakVars>>

----------------------------------------------------------------------------
(* Journals.tsx: handleRecordingReady *)

UsedIds ==
    {r.id : r \in db} \cup {e.id : e \in Range(entries)}
    \cup {calls[q].entry.id : q \in {q \in Procs : calls[q].op = "add" /\ calls[q].pc \in {"await", "resume"}}}

\* crypto.randomUUID(): an id not in use; which one makes no difference
FreshId == CHOOSE i \in Ids \ UsedIds : \A j \in Ids \ UsedIds : i <= j

\* new Date(): the clock reads the first instant no earlier than any createdAt
\* already given
Now ==
    LET later == {t \in Times : \A e \in db \cup Range(entries) : e.createdAt <= t}
    IN  {t \in later : \A u \in later : t <= u}

\* the transcription request resolves: the entry is built and addEntry runs up
\* to its await of saveJournal (the audioUrl is supplied, none is derived)
TranscribeOk(p) ==
    /\ calls[p].op = "record" /\ calls[p].pc = "transcribing"
    /\ Ids \ UsedIds # {}
    /\ \E id \in {FreshId}, t \in Now, transcript \in Transcripts :
         calls' = [calls EXCEPT ![p] =
                     [op |-> "add", pc |-> "await",
                      entry |-> [id |-> id, createdAt |-> t, transcript |-> transcript,
                                 duration |-> calls[p].duration,
                                 audioBlob |-> calls[p].blob,
                                 audioUrl |-> CreateObjectURL,
                                 encrypted |-> FALSE, title |-> transcript]]]
    /\ liveUrls' = liveUrls \cup {CreateObjectURL}
    /\ UNCHANGED <<entries, hydrated, db, ncalls, recVars, streakVars>>

\* the transcription request rejects: the catch block
TranscribeFail(p) ==
    /\ calls[p].op = "record" /\ calls[p].pc = "transcribing"
    /\ calls' = [calls EXCEPT ![p] = Finished(p, "failed")]
    /\ UNCHANGED <<entries, hydrated, db, liveUrls, ncalls, recVars, streakVars>>

----------------------------------------------------------------------------
(* journals.ts: getStreakCount *)

DayUnits == 3          \* 1000 * 60 * 60 * 24 ms, in units of 8 hours

\* [...entries].sort((a, b) => time(b) - time(a)): a stable sort, newest first
RECURSIVE InsertByTime(_, _)
InsertByTime(e, sorted) ==
    IF sorted = <<>> THEN <<e>>
    ELSE IF Head(sorted).createdAt >= e.createdAt
         THEN <<Head(sorted)>> \o InsertByTime(e, Tail(sorted))
         ELSE <<e>> \o sorted

RECURSIVE SortNewestFirst(_)
SortNewestFirst(es) ==
    IF es = <<>> THEN <<>>
    ELSE InsertByTime(es[Len(es)], SortNewestFirst(SubSeq(es, 1, Len(es) - 1)))

\* Math.ceil(a / d) for d > 0
Ceil(a, d) == -((-a) \div d)

\* the for loop from index i on
RECURSIVE StreakLoop(_, _, _, _)
StreakLoop(sorted, i, count, current) ==
    IF i > Len(sorted) THEN count
    ELSE LET nextDate == sorted[i].createdAt
             diff     == Ceil(current - nextDate, DayUnits)
         IN  IF diff = 0 THEN StreakLoop(sorted, i + 1, count, current)
             ELSE IF diff = 1 THEN StreakLoop(sorted, i + 1, count + 1, nextDate)
             ELSE count

\* the loop without its break: a gap of more than a day is stepped over
RECURSIVE StreakLoopNoBreak(_, _, _, _)
StreakLoopNoBreak(sorted, i, count, current) ==
    IF i > Len(sorted) THEN count
    ELSE LET nextDate == sorted[i].createdAt
             diff     == Ceil(current - nextDate, DayUnits)
         IN  IF diff = 0 THEN StreakLoopNoBreak(sorted, i + 1, count, current)
             ELSE StreakLoopNoBreak(sorted, i + 1, count + 1, nextDate)

\* getStreakCount without the break
GetStreakCountNoBreak(es) ==
    LET sorted == SortNewestFirst(es)
    IN  IF Len(sorted) = 0 THEN 0
        ELSE StreakLoopNoBreak(sorted, 2, 1, sorted[1].createdAt)

GetStreakCount(es) ==
    LET sorted == SortNewestFirst(es)
    IN  IF Len(sorted) = 0 THEN 0
        ELSE StreakLoop(sorted, 2, 1, sorted[1].createdAt)

\* getStreakCount that sorts the store's list itself, not a copy of it
ShowStreakSortsInPlace ==
    /\ ~streakShown
    /\ streak' = GetStreakCount(entries)
    /\ entries' = SortNewestFirst(entries)
    /\ streakShown' = TRUE
    /\ UNCHANGED <<hydrated, db, liveUrls, calls, ncalls, recVars, pair>>

\* the badge is rendered: getStreakCount() is evaluated over the store's list
ShowStreak ==
    /\ ~streakShown
    /\ streak' = GetStreakCount(entries)
    /\ streakShown' = TRUE
    /\ UNCHANGED <<repoVars, recVars, pair>>

\* the page is rendered again after the list changed
HideStreak ==
    /\ streakShown
    /\ streak' = 0
    /\ streakShown' = FALSE
    /\ UNCHANGED <<repoVars, recVars, pair>>

----------------------------------------------------------------------------
(* The journal store under any interleaving of its calls *)

RepoInit ==
    /\ entries = <<>>
    /\ hydrated = FALSE
    /\ db \in SUBSET StoredBefore
    /\ liveUrls = {}
    /\ calls = [p \in Procs |-> Idle]
    /\ ncalls = 0

\* the Recorder as mounted: useState / useRef initial values
RecInit ==
    /\ status = "idle" /\ elapsed = 0 /\ recError = FALSE
    /\ previewUrl = NoUrl /\ previewDuration = 0
    /\ mediaRecorderRef = 0 /\ streamRef = 0 /\ chunksRef = <<>>
    /\ timerRef = 0 /\ elapsedRef = 0
    /\ tracks = {} /\ recState = [r \in 1..MaxStarts |-> "none"] /\ timers = {}
    /\ pendingStarts = 0 /\ nstreams = 0 /\ nsaves = 0 /\ stopRequested = FALSE

\* no pair of operations is being followed
NoPair == [ops |-> <<>>]

StreakInit == streak = 0 /\ streakShown = FALSE /\ pair = NoPair

Init == RepoInit /\ RecInit /\ StreakInit

Next ==
    \E p \in Procs :
        \/ AddBegin(p) \/ AddStoreOk(p) \/ AddStoreFail(p) \/ AddReflect(p)
        \/ UpdateBegin(p) \/ UpdateStoreOk(p) \/ UpdateStoreFail(p) \/ UpdateReflect(p)
        \/ RemoveBegin(p) \/ RemoveStoreOk(p) \/ RemoveStoreFail(p) \/ RemoveReflect(p)
        \/ ClearBegin(p) \/ ClearStoreOk(p) \/ ClearStoreFail(p) \/ ClearReflect(p)
        \/ HydrateBegin(p) \/ HydrateStoreOk(p) \/ HydrateStoreFail(p)
        \/ HydrateReflect(p)

Spec == Init /\ [][Next]_vars

----------------------------------------------------------------------------
(* The journal store when the caller sequences its calls: a call begins    *)
(* only when no other call is awaiting the store or its continuation       *)

InFlight(p) == calls[p].pc \in {"await", "resume"}

NoneInFlight == \A q \in Procs : ~InFlight(q)

NextSerial ==
    \E p \in Procs :
        \/ NoneInFlight /\ AddBegin(p)
        \/ NoneInFlight /\ UpdateBegin(p)
        \/ NoneInFlight /\ RemoveBegin(p)
        \/ NoneInFlight /\ ClearBegin(p)
        \/ NoneInFlight /\ HydrateBegin(p)
        \/ AddStoreOk(p) \/ AddStoreFail(p) \/ AddReflect(p)
        \/ UpdateStoreOk(p) \/ UpdateStoreFail(p) \/ UpdateReflect(p)
        \/ RemoveStoreOk(p) \/ RemoveStoreFail(p) \/ RemoveReflect(p)
        \/ ClearStoreOk(p) \/ ClearStoreFail(p) \/ ClearReflect(p)
        \/ HydrateStoreOk(p) \/ HydrateStoreFail(p) \/ HydrateReflect(p)

SpecSerial == Init /\ [][NextSerial]_vars

----------------------------------------------------------------------------
(* Properties of the journal store *)

\* C1: a call whose store operation fails leaves the in-memory list as it
\* was: neither the step that begins a call (up to its store await) nor the
\* step in which the awaited store operation rejects changes entries.
FailedStoreCallLeavesList ==
    [][\A p \in Procs :
          (calls'[p] # calls[p] /\ calls'[p].pc \in {"await", "failed"})
              => entries' = entries]_vars

\* C1 witness: an update and an add have each failed at the store while the
\* list holds entries
FailedCallsSeen ==
    /\ entries # <<>>
    /\ \E p, q \in Procs :
         /\ calls[p].pc = "failed" /\ calls[p].op = "update"
         /\ calls[q].pc = "failed" /\ calls[q].op \in {"add", "remove", "clear"}

\* C2: the in-memory list is sorted by createdAt, newest first.
SortedNewestFirst ==
    \A i \in 1..(Len(entries) - 1) : entries[i].createdAt >= entries[i + 1].createdAt

InStore(e) == \E r \in db : r.id = e.id

DeletePending == \E p \in Procs : calls[p].op \in {"remove", "clear"} /\ calls[p].pc = "resume"

HydrateReplacesAtMostOnce ==
    [][\A p \in Procs :
          (calls[p].op = "hydrate" /\ calls[p].pc = "resume" /\ calls'[p].pc = "done")
              => ~hydrated]_vars

\* the entries of the list that hold the object URL u
HoldersOf(u) == {i \in 1..Len(entries) : entries[i].audioUrl = u}

\* C11: once every call has settled, each object URL created and not yet
\* revoked is the audioUrl of exactly one entry of the in-memory list, and no
\* entry holds a URL that is not live: no handle is leaked, none is shared.
EveryLiveUrlHeldByOneEntry ==
    NoneInFlight =>
        /\ \A u \in liveUrls : Cardinality(HoldersOf(u)) = 1
        /\ \A e \in Range(entries) : e.audioUrl # NoUrl => e.audioUrl \in liveUrls

\* the entries a remove or clear call that is about to update the list removes
RemovedBy(c) ==
    IF c.op = "clear" THEN Range(entries)
    ELSE {e \in Range(entries) : e.id = c.id}

\* C12: the step in which a remove or a clear completes leaves every object
\* URL of a removed entry revoked and held by no entry of the list.
RemovedEntriesUrlsRevoked ==
    [][\A p \in Procs :
          (calls[p].op \in {"remove", "clear"} /\ calls[p].pc = "resume"
              /\ calls'[p].pc = "done")
              => \A e \in RemovedBy(calls[p]) :
                    e.audioUrl # NoUrl =>
                        /\ e.audioUrl \notin liveUrls'
                        /\ \A x \in Range(entries') : x.audioUrl # e.audioUrl]_vars

\* C13: when the durable write of an update fails, the entry of the list the
\* update was for still holds a live object URL: its previous URL was not
\* revoked ahead of the write.
FailedUpdateKeepsLiveUrl ==
    [][\A p \in Procs :
          (calls[p].op = "update" /\ calls[p].pc = "await" /\ calls'[p].pc = "failed")
              => \A e \in Range(entries') :
                    (e.id = calls[p].id /\ e.audioUrl # NoUrl) => e.audioUrl \in liveUrls']_vars

\* the persisted fields of an entry: all but the transient audioUrl
Persisted(e) == [e EXCEPT !.audioUrl = NoUrl]

\* C19: the store never holds two records with the same id: a write for an
\* id already stored replaces the record.
StoreIdsUnique == \A r, x \in db : r.id = x.id => r = x

\* C19 witness: two adds that reuse one id with different contents have
\* both written, and the store holds one record under that id
SameIdWrittenTwice ==
    \E p, q \in Procs :
        /\ p # q
        /\ calls[p].op = "add" /\ calls[p].pc = "resume"
        /\ calls[q].op = "add" /\ calls[q].pc = "resume"
        /\ calls[p].entry.id = calls[q].entry.id
        /\ Persisted(calls[p].entry) # Persisted(calls[q].entry)
        /\ Cardinality({r \in db : r.id = calls[p].entry.id}) = 1

\* C20: no stored record ever has an audioUrl, and the write of an add or an
\* update whose entry holds an object URL stores the record without the URL
\* and with the entry's audio payload.
StoredRecordsHoldNoUrl ==
    /\ [](\A r \in db : r.audioUrl = NoUrl)
    /\ [][\A p \in Procs :
             (/\ calls[p].op \in {"add", "update"}
              /\ calls[p].pc = "await" /\ calls'[p].pc = "resume"
              /\ calls[p].entry.audioUrl # NoUrl)
                 => \E r \in db' : /\ r.id = calls[p].entry.id
                                   /\ r.audioUrl = NoUrl
                                   /\ r.audioBlob = calls[p].entry.audioBlob]_vars

\* C20 witness: an update has replaced a payload; the entry in the list holds
\* a live object URL and its stored record holds the new payload and no URL
UrlInMemoryOnly ==
    \E e \in Range(entries) :
        /\ e.audioBlob = Blob(<<2>>)
        /\ e.audioUrl \in liveUrls
        /\ \E r \in db : r.id = e.id /\ r.audioBlob = e.audioBlob /\ r.audioUrl = NoUrl

\* the entries of a list whose id is not id, in order
RECURSIVE Others(_, _)
Others(es, id) ==
    IF es = <<>> THEN <<>>
    ELSE IF Head(es).id # id THEN <<Head(es)>> \o Others(Tail(es), id)
         ELSE Others(Tail(es), id)

\* C24: a remove deletes the record of its id from the store and leaves the
\* list alone until that is done; its set() then leaves no entry of that id
\* in the list or the store and keeps every other entry, in order, with its
\* object URL as live as it was; on an id that is absent (as after a first
\* remove of it) neither step changes the store, the list or the live URLs.
RemoveIsIdempotent ==
    [][\A p \in Procs :
          /\ (calls[p].op = "remove" /\ calls[p].pc = "await" /\ calls'[p].pc = "resume")
                => /\ entries' = entries /\ liveUrls' = liveUrls
                   /\ \A r \in db' : r.id # calls[p].id
                   /\ \A r \in db : r.id # calls[p].id => r \in db'
                   /\ (\A r \in db : r.id # calls[p].id) => db' = db
          /\ (calls[p].op = "remove" /\ calls[p].pc = "resume" /\ calls'[p].pc = "done")
                => /\ db' = db
                   /\ \A r \in db : r.id # calls[p].id
                   /\ ~Has(entries', calls[p].id)
                   /\ entries' = Others(entries, calls[p].id)
                   /\ \A e \in Range(entries') :
                        e.audioUrl \in liveUrls => e.audioUrl \in liveUrls'
                   /\ ~Has(entries, calls[p].id)
                        => entries' = entries /\ liveUrls' = liveUrls]_vars

\* C24 witness: after a hydrate of two entries, two removes have completed
\* and one entry is left in the list and in the store: both removes were of
\* one id, the second of an id already absent
RemovedTwice ==
    /\ \A p \in Procs : calls[p].op = "remove" /\ calls[p].pc = "done"
    /\ hydrated /\ ncalls = 3
    /\ Len(entries) = 1 /\ Cardinality(db) = 1
    /\ InStore(entries[1])

\* C27: an update changes neither the id nor the createdAt of the entry it
\* is for, in the list, and leaves the set of ids in the store as it was.
UpdateKeepsIdAndCreatedAt ==
    [][\A p \in Procs :
          /\ (calls[p].op = "update" /\ calls[p].pc = "await" /\ calls'[p].pc = "resume")
                => {r.id : r \in db'} = {r.id : r \in db}
          /\ (calls[p].op = "update" /\ calls[p].pc = "resume" /\ calls'[p].pc = "done")
                => /\ Len(entries') = Len(entries)
                   /\ \A i \in 1..Len(entries) :
                        /\ entries'[i].id = entries[i].id
                        /\ entries'[i].createdAt = entries[i].createdAt]_vars

\* C28: the in-memory list never holds two entries with the same id.
ListIdsUnique ==
    \A i, j \in 1..Len(entries) : entries[i].id = entries[j].id => i = j

----------------------------------------------------------------------------
(* The journal store over several page loads: the table persists, the       *)
(* zustand store and the page's object URLs are created anew                *)

\* the page is loaded again: create() runs with its initial state, object
\* URLs of the old document are gone, pending continuations never run (the
\* Recorder is left unused across these page loads and stays as mounted)
Reload ==
    /\ entries' = <<>>
    /\ hydrated' = FALSE
    /\ liveUrls' = {}
    /\ calls' = [p \in Procs |-> Idle]
    /\ UNCHANGED <<db, ncalls>>
    /\ UNCHANGED <<recVars, streakVars>>

NextReload == NextSerial \/ Reload

SpecReload == Init /\ [][NextReload]_vars

\* C18: the write of an add stores every persisted field of the entry as
\* given, and a completed hydrate makes the list exactly the stored records,
\* field for field, with only audioUrl re-derived (a live object URL for an
\* entry with a payload, none otherwise): an entry added and then hydrated
\* into a fresh in-memory state is reproduced.
AddThenHydrateReproduces ==
    [][\A p \in Procs :
          /\ (calls[p].op = "add" /\ calls[p].pc = "await" /\ calls'[p].pc = "resume")
                => Persisted(calls[p].entry) \in db'
          /\ (calls[p].op = "hydrate" /\ calls[p].pc = "resume" /\ calls'[p].pc = "done")
                => /\ {Persisted(e) : e \in Range(entries')} = db
                   /\ Len(entries') = Cardinality(db)
                   /\ \A e \in Range(entries') :
                        IF e.audioBlob = NoBlob THEN e.audioUrl = NoUrl
                        ELSE e.audioUrl \in liveUrls']_vars

\* C18 witness: in a page load that has made no call but hydrate, the list
\* holds an entry with a payload that no earlier session's table held: it
\* was added before the reload, and its object URL is the only live one
AddedEntryHydratedAfterReload ==
    /\ hydrated
    /\ \A p \in Procs : calls[p].op \in {"none", "hydrate"}
    /\ Len(entries) = 1
    /\ Persisted(entries[1]) \notin StoredBefore
    /\ Persisted(entries[1]) \in db
    /\ entries[1].audioBlob # NoBlob
    /\ liveUrls = {entries[1].audioUrl}

----------------------------------------------------------------------------
(* getStreakCount over every short list of entries *)

StreakTimes == 0..(MaxStreakDays * DayUnits - 1)

StreakLists == UNION {[1..n -> StreakTimes] : n \in 0..MaxStreakLen}

InitStreak ==
    /\ entries \in {[i \in 1..Len(ts) |-> NewEntry(i, ts[i], NoBlob)] : ts \in StreakLists}
    /\ db = Range(entries)
    /\ hydrated = TRUE
    /\ liveUrls = {}
    /\ calls = [p \in Procs |-> Idle]
    /\ ncalls = 0
    /\ RecInit /\ StreakInit

NextStreak == ShowStreak \/ HideStreak

SpecStreak == InitStreak /\ [][NextStreak]_vars

\* the calendar day (UTC) of an instant
DayOf(t) == t \div DayUnits

Days(es) == {DayOf(e.createdAt) : e \in Range(es)}

\* the calendar-day walk over a newest-first list, from index i on
RECURSIVE DayWalk(_, _, _, _)
DayWalk(sorted, i, count, cursor) ==
    IF i > Len(sorted) THEN count
    ELSE LET gapDays == cursor - DayOf(sorted[i].createdAt)
         IN  IF gapDays = 0 THEN DayWalk(sorted, i + 1, count, cursor)
             ELSE IF gapDays = 1
                  THEN DayWalk(sorted, i + 1, count + 1, DayOf(sorted[i].createdAt))
                  ELSE count

CalendarStreak(es) ==
    LET sorted == SortNewestFirst(es)
    IN  IF Len(sorted) = 0 THEN 0
        ELSE DayWalk(sorted, 2, 1, DayOf(sorted[1].createdAt))

\* C7: getStreakCount equals the calendar-day walk over the list, newest
\* first: 0 if empty, else 1 plus one for each step to the previous calendar
\* day, same-day entries skipped, stopping at the first larger gap.
StreakIsCalendarDayWalk == streakShown => streak = CalendarStreak(entries)

\* C8: entries on k consecutive calendar days, at any times of day, give
\* a streak of k.
ConsecutiveDaysGiveTheirCount ==
    (/\ streakShown
     /\ entries # <<>>
     /\ \A d \in Days(entries) : d + 1 \in Days(entries) \/ \A x \in Days(entries) : x <= d)
        => streak = Cardinality(Days(entries))

\* C9: entries of one calendar day count once: the streak never exceeds the
\* number of distinct calendar days among the entries.
StreakAtMostDistinctDays == streakShown => streak <= Cardinality(Days(entries))

\* the newest-first list of the entries' calendar days
SortedDays(es) ==
    LET sorted == SortNewestFirst(es)
    IN  [i \in 1..Len(sorted) |-> DayOf(sorted[i].createdAt)]

\* C25: the empty list gives 0, and a list whose newest entry and next
\* entry are two or more calendar days apart gives 1, whatever follows.
StreakStopsAtFirstGap ==
    streakShown =>
        /\ entries = <<>> => streak = 0
        /\ (Len(entries) >= 2 /\ SortedDays(entries)[1] - SortedDays(entries)[2] >= 2)
              => streak = 1

\* C25 witness: three entries, the newest two calendar days after the next,
\* and the streak shown is 1
GapAfterNewestShown ==
    /\ streakShown /\ streak = 1
    /\ Len(entries) = 3
    /\ SortedDays(entries)[1] - SortedDays(entries)[2] >= 2

\* the createdAt values of a list in ascending order, nothing else kept
RECURSIVE InsertAscending(_, _)
InsertAscending(t, ts) ==
    IF ts = <<>> THEN <<t>>
    ELSE IF Head(ts) <= t THEN <<Head(ts)>> \o InsertAscending(t, Tail(ts))
         ELSE <<t>> \o ts

RECURSIVE CreatedAtAscending(_)
CreatedAtAscending(es) ==
    IF es = <<>> THEN <<>>
    ELSE InsertAscending(Head(es).createdAt, CreatedAtAscending(Tail(es)))

\* the list every list with the same createdAt values stands for
CreatedAtOnly(es) ==
    LET ts == CreatedAtAscending(es)
    IN  [i \in 1..Len(ts) |-> [createdAt |-> ts[i]]]

\* C26: evaluating getStreakCount leaves the list (and the store) as they
\* were, and the streak shown is the one of the list's createdAt values
\* alone, taken in a fixed order with every other field dropped.
StreakReadsOnlyCreatedAt ==
    /\ [](streakShown => streak = GetStreakCount(CreatedAtOnly(entries)))
    /\ [][streakShown' # streakShown => entries' = entries /\ db' = db]_vars

\* C26 witness: the streak of a list that is not in newest-first order, with
\* entries of different ids, is shown
UnsortedListStreakShown ==
    /\ streakShown /\ streak = 2
    /\ Len(entries) = 3
    /\ entries[1].createdAt < entries[2].createdAt
    /\ entries[3].createdAt < entries[1].createdAt

----------------------------------------------------------------------------
(* The Recorder on the Journals page: recordings are made, saved and added *)

NextRecorder ==
    \/ ClickStart \/ StartAcquired \/ StartDenied
    \/ StartRecorderUnsupported \/ StartRecorderStartThrows
    \/ TimerTick \/ ClickPause \/ ClickResume \/ ClickStop
    \/ \E r \in 1..MaxStarts : RecorderData(r) \/ RecorderOnStop(r)
    \/ ClickDiscard \/ Unmount
    \/ \E p \in SaveSlots :
         \/ ClickSave(p) \/ TranscribeOk(p) \/ TranscribeFail(p)
         \/ AddStoreOk(p) \/ AddStoreFail(p) \/ AddReflect(p)

\* a first session: nothing stored yet
InitRecorder == Init /\ db = {}

SpecRecorder == InitRecorder /\ [][NextRecorder]_vars

\* C3: whenever the session is idle, in preview or in error, no capture
\* device is held.
NoDeviceHeldOutsideRecording ==
    status \in {"idle", "preview", "error"} => tracks = {}

\* C4: at most one capture device is held, and it is the one the session
\* tracks in streamRef.
OnlyTheTrackedDeviceHeld ==
    /\ Cardinality(tracks) <= 1
    /\ \A s \in tracks : s = streamRef

\* the payload a call carries while the save of a recording is in flight
Carried(c) ==
    IF c.op = "record" /\ c.pc = "transcribing" THEN c.blob
    ELSE IF c.op = "add" /\ c.pc \in {"await", "resume"} THEN c.entry.audioBlob
    ELSE NoBlob

\* C6: when the transcription or the add of a saved recording fails, its
\* payload is still held: by the session in preview, or by a save in flight.
PayloadKeptWhenSaveFails ==
    [][\A p \in Procs :
          (Carried(calls[p]) # NoBlob /\ calls'[p].pc = "failed")
              => \/ status' = "preview" /\ Blob(chunksRef') = Carried(calls[p])
                 \/ \E q \in Procs : Carried(calls'[q]) = Carried(calls[p])]_vars

\* C14: a save acts only in preview and leaves the session idle with no
\* preview, and no save is accepted unless stop() has been invoked since the
\* save before it: a further save without a new start() and stop() emits
\* nothing.
SaveNeedsNewStop ==
    [][nsaves' # nsaves =>
          /\ status = "preview" /\ previewUrl # NoUrl
          /\ status' = "idle" /\ previewUrl' = NoUrl
          /\ stopRequested]_vars

\* C15: a start that fails (acquiring the device or setting up capture) ends
\* in error and changes nothing else: the devices held, the timers running,
\* the elapsed time and the chunk buffer are as they were before it.
FailedStartChangesNothing ==
    [][(pendingStarts' < pendingStarts /\ status' = "error")
          => /\ tracks' = tracks /\ timers' = timers
             /\ elapsed' = elapsed /\ chunksRef' = chunksRef]_vars

\* C16: whenever the session is in error and no start is in flight, start
\* can be invoked again.
ErrorOffersStart ==
    (status = "error" /\ pendingStarts = 0 /\ nstreams < MaxStarts) => ENABLED ClickStart

\* C17: at most one timer is ever running, and none while the session is
\* paused (the elapsed time does not change while paused).
OneTimerAndNoneWhilePaused ==
    /\ Cardinality(timers) <= 1
    /\ status = "paused" => timers = {}

\* the session's recorder has been asked to stop and has not yet stopped
StopPending ==
    mediaRecorderRef # 0 /\ recState[mediaRecorderRef] \in {"flushing", "stopping"}

\* C22: from the stop request to the preview the value recorded as the final
\* duration does not change (no later timer tick is counted), and the
\* recorder's stop ends in preview with that value as the duration.
DurationFixedAtStopRequest ==
    [][StopPending =>
          /\ elapsedRef' = elapsedRef
          /\ recState'[mediaRecorderRef] = "inactive"
                => status' = "preview" /\ previewDuration' = elapsedRef]_vars

\* C23: whenever the session is in preview or in error, discard can be
\* invoked.
DiscardOfferedInPreviewAndError ==
    status \in {"preview", "error"} => ENABLED ClickDiscard

----------------------------------------------------------------------------
(* The journal store under any interleaving when no store operation fails  *)

NextNoFail ==
    \E p \in Procs :
        \/ AddBegin(p) \/ AddStoreOk(p) \/ AddReflect(p)
        \/ UpdateBegin(p) \/ UpdateStoreOk(p) \/ UpdateReflect(p)
        \/ RemoveBegin(p) \/ RemoveStoreOk(p) \/ RemoveReflect(p)
        \/ ClearBegin(p) \/ ClearStoreOk(p) \/ ClearReflect(p)
        \/ HydrateBegin(p) \/ HydrateStoreOk(p) \/ HydrateReflect(p)

SpecNoFail == Init /\ [][NextNoFail]_vars

\* C29: once hydrate has completed and no call is in flight, the ids of the
\* in-memory list are the ids of the store.
HydratedListHasStoreIds ==
    (hydrated /\ NoneInFlight) => {e.id : e \in Range(entries)} = {r.id : r \in db}

----------------------------------------------------------------------------
(* Two mutations on different ids, begun on a hydrated list, under every    *)
(* interleaving of their steps, set against their two serial executions     *)

\* the calls a pair is drawn from: addEntry(entry), updateEntry(id, patch),
\* removeEntry(id)
PairOps ==
    {[op |-> "add", id |-> e.id, entry |-> e] : e \in AddInputs}
    \cup {[op |-> "update", id |-> i, patch |-> pt] : i \in Ids, pt \in Patches}
    \cup {[op |-> "remove", id |-> i] : i \in Ids}

\* the ids a call names: its id argument and, for an update, the id its
\* patch carries
NamedIds(o) ==
    {o.id} \cup (IF o.op = "update" /\ o.patch.k = "id" THEN {o.patch.v} ELSE {})

PersistedList(es) == [i \in 1..Len(es) |-> Persisted(es[i])]

\* the list as hydrate leaves it over the table
HydratedList(table) ==
    MapAudioUrls(OrderByCreatedAtReverse(table),
                 FreshUrls({}, Cardinality({r \in table : NeedsUrl(r)})))

InitPair ==
    /\ db \in SUBSET StoredBefore
    /\ entries = HydratedList(db)
    /\ hydrated = TRUE
    /\ liveUrls = {e.audioUrl : e \in Range(entries)} \ {NoUrl}
    /\ calls = [p \in Procs |-> Idle]
    /\ ncalls = 0
    /\ RecInit
    /\ streak = 0 /\ streakShown = FALSE
    /\ \E o1, o2 \in PairOps :
         /\ NamedIds(o1) \cap NamedIds(o2) = {}
         /\ pair = [entries |-> PersistedList(entries), db |-> db, ops |-> <<o1, o2>>]

\* caller p makes the call the pair gives it
PairAddBegin(p) ==
    /\ calls[p].pc = "idle" /\ pair.ops[p].op = "add"
    /\ AddBegin(p)
    /\ Persisted(calls'[p].entry) = Persisted(pair.ops[p].entry)

PairUpdateBegin(p) ==
    /\ calls[p].pc = "idle" /\ pair.ops[p].op = "update"
    /\ UpdateBegin(p)
    /\ IF Has(entries, pair.ops[p].id)
       THEN /\ calls'[p].pc = "await"
            /\ calls'[p].id = pair.ops[p].id
            /\ Persisted(calls'[p].entry)
                 = Persisted(Merge(Find(entries, pair.ops[p].id), pair.ops[p].patch))
       ELSE calls'[p].pc = "done"

PairRemoveBegin(p) ==
    /\ calls[p].pc = "idle" /\ pair.ops[p].op = "remove"
    /\ RemoveBegin(p)
    /\ calls'[p].id = pair.ops[p].id

NextPair ==
    \E p \in Procs :
        \/ PairAddBegin(p) \/ PairUpdateBegin(p) \/ PairRemoveBegin(p)
        \/ AddStoreOk(p) \/ AddStoreFail(p) \/ AddReflect(p)
        \/ UpdateStoreOk(p) \/ UpdateStoreFail(p) \/ UpdateReflect(p)
        \/ RemoveStoreOk(p) \/ RemoveStoreFail(p) \/ RemoveReflect(p)

SpecPair == InitPair /\ [][NextPair]_vars

\* what one call, run alone to completion, makes of a list and a table
ApplyOp(st, o) ==
    CASE o.op = "add" ->
           [entries |-> <<Persisted(o.entry)>> \o st.entries, db |-> Put(st.db, o.entry)]
      [] o.op = "update" ->
           IF ~Has(st.entries, o.id) THEN st
           ELSE LET updated == Persisted(Merge(Find(st.entries, o.id), o.patch))
                IN  [entries |-> MapReplace(st.entries, o.id, updated),
                     db |-> Put(st.db, updated)]
      [] o.op = "remove" ->
           [entries |-> Filter(st.entries, o.id), db |-> Delete(st.db, o.id)]

\* the calls of the pair whose store operation did not fail, in either order
SerialOutcomes ==
    LET base == [entries |-> pair.entries, db |-> pair.db]
        ran(p) == calls[p].pc = "done"
        o1 == pair.ops[1]
        o2 == pair.ops[2]
    IN  IF ran(1) /\ ran(2)
        THEN {ApplyOp(ApplyOp(base, o1), o2), ApplyOp(ApplyOp(base, o2), o1)}
        ELSE IF ran(1) THEN {ApplyOp(base, o1)}
        ELSE IF ran(2) THEN {ApplyOp(base, o2)}
        ELSE {base}

PairSettled == \A p \in Procs : calls[p].pc \in {"done", "failed"}

RecorderQuiet ==
    /\ pendingStarts = 0
    /\ \A r \in 1..MaxStarts : recState[r] \notin {"flushing", "stopping"}

\* C30: once the Recorder is unmounted and nothing of it is still to complete,
\* no capture device is held, no elapsed-time timer runs and the preview URL,
\* if there was one, is revoked
TornDownReleasesAll ==
    (~Mounted /\ RecorderQuiet) =>
        /\ tracks = {}
        /\ timers = {}
        /\ previewUrl # NoUrl => previewUrl \notin liveUrls

====
